---- MODULE Spec2Model ----
(***************************************************************************)
(* Payment-instruction parser and settlement evaluator.                    *)
(*                                                                         *)
(* Instructions are real strings; the JavaScript string and number         *)
(* primitives the code uses (trim, split, toUpperCase, indexOf, Number,    *)
(* Date.UTC and the UTC getters, new Date(string), setHours) are modelled  *)
(* by what they compute.  Array indices are 0-based as in the source.      *)
(***************************************************************************)
EXTENDS Integers, Sequences, FiniteSets, TLC

VARIABLES instruction, accounts, clock, pc, result

vars == <<instruction, accounts, clock, pc, result>>

(***************************************************************************)
(* JavaScript values that are not strings or numbers.  A word produced by  *)
(* split(/\s+/) never contains white space, so these two strings cannot    *)
(* collide with a token of an instruction.                                 *)
(***************************************************************************)
Undefined == " undefined "
Null == " null "

\* !x for a value that is a string, undefined or null.
Falsy(x) == x = Undefined \/ x = Null \/ x = ""

(***************************************************************************)
(* Strings                                                                 *)
(***************************************************************************)
CharAt(s, i) == IF i >= 1 /\ i <= Len(s) THEN SubSeq(s, i, i) ELSE ""

LowerLetters == "abcdefghijklmnopqrstuvwxyz"
UpperLetters == "ABCDEFGHIJKLMNOPQRSTUVWXYZ"

RECURSIVE CharIndexFrom(_, _, _)
CharIndexFrom(alphabet, c, i) ==
    IF i > Len(alphabet) THEN 0
    ELSE IF CharAt(alphabet, i) = c THEN i
    ELSE CharIndexFrom(alphabet, c, i + 1)

\* Position (from 1) of the first occurrence of the character c, 0 when absent
CharIndex(alphabet, c) == CharIndexFrom(alphabet, c, 1)

\* The upper-case letter of each lower-case letter
UpperOf ==
    [c \in {CharAt(LowerLetters, k) : k \in 1..Len(LowerLetters)} |->
        CharAt(UpperLetters, CharIndex(LowerLetters, c))]

UpperChar(c) == IF c \in DOMAIN UpperOf THEN UpperOf[c] ELSE c

RECURSIVE toUpperCase(_)
toUpperCase(s) ==
    IF s = "" THEN ""
    ELSE UpperChar(CharAt(s, 1)) \o toUpperCase(SubSeq(s, 2, Len(s)))

IsSpace(c) == c \in {" ", "\t", "\n", "\r"}

RECURSIVE TrimStart(_)
TrimStart(s) ==
    IF s # "" /\ IsSpace(CharAt(s, 1)) THEN TrimStart(SubSeq(s, 2, Len(s))) ELSE s

RECURSIVE TrimEnd(_)
TrimEnd(s) ==
    IF s # "" /\ IsSpace(CharAt(s, Len(s))) THEN TrimEnd(SubSeq(s, 1, Len(s) - 1)) ELSE s

trim(s) == TrimEnd(TrimStart(s))

\* Scans s from position i; cur is the piece collected so far, inSep says that
\* the previous character belonged to a separator run.
RECURSIVE SplitSpaceFrom(_, _, _, _)
SplitSpaceFrom(s, i, cur, inSep) ==
    IF i > Len(s) THEN <<cur>>
    ELSE IF IsSpace(CharAt(s, i))
         THEN IF inSep THEN SplitSpaceFrom(s, i + 1, cur, TRUE)
              ELSE <<cur>> \o SplitSpaceFrom(s, i + 1, "", TRUE)
         ELSE SplitSpaceFrom(s, i + 1, cur \o CharAt(s, i), FALSE)

\* s.split(/\s+/)
SplitSpace(s) == SplitSpaceFrom(s, 1, "", FALSE)

RECURSIVE SplitCharFrom(_, _, _, _)
SplitCharFrom(s, sep, i, cur) ==
    IF i > Len(s) THEN <<cur>>
    ELSE IF CharAt(s, i) = sep
         THEN <<cur>> \o SplitCharFrom(s, sep, i + 1, "")
         ELSE SplitCharFrom(s, sep, i + 1, cur \o CharAt(s, i))

\* s.split(sep) for a one-character separator
SplitChar(s, sep) == SplitCharFrom(s, sep, 1, "")

\* words[i] with a 0-based index: undefined outside the array
At(words, i) == IF i >= 0 /\ i < Len(words) THEN words[i + 1] ELSE Undefined

\* words.map((w) => w.toUpperCase())
UpperWords(words) == [i \in 1..Len(words) |-> toUpperCase(words[i])]

\* Array.prototype.indexOf: 0-based index of the first occurrence, -1 when absent
indexOf(words, w) ==
    IF \E i \in 1..Len(words) : words[i] = w
    THEN (CHOOSE i \in 1..Len(words) :
            /\ words[i] = w
            /\ \A j \in 1..(i - 1) : words[j] # w) - 1
    ELSE -1

\* Array.prototype.includes
includes(list, x) == \E i \in 1..Len(list) : list[i] = x

(***************************************************************************)
(* Numbers.  A JavaScript number is NaN, an infinity, or the finite value  *)
(* (-1)^neg * mant / 10^frac.  Every literal of the modelled instructions  *)
(* is short, so no value needs the rounding of a double.                   *)
(***************************************************************************)
NaN == [kind |-> "nan"]
Infinity(neg) == [kind |-> "inf", neg |-> neg]
Fin(neg, mant, frac) == [kind |-> "fin", neg |-> neg, mant |-> mant, frac |-> frac]
Num(n) == IF n < 0 THEN Fin(TRUE, -n, 0) ELSE Fin(FALSE, n, 0)

RECURSIVE Pow(_, _)
Pow(b, e) == IF e <= 0 THEN 1 ELSE b * Pow(b, e - 1)

isNaN(n) == n.kind = "nan"

\* Number.isInteger
isInteger(n) == n.kind = "fin" /\ n.mant % Pow(10, n.frac) = 0

\* n <= 0 (false for NaN)
LeqZero(n) ==
    \/ n.kind = "inf" /\ n.neg
    \/ n.kind = "fin" /\ (n.neg \/ n.mant = 0)

\* The mathematical value of an integral number
IntegerValue(n) ==
    LET v == n.mant \div Pow(10, n.frac) IN IF n.neg THEN -v ELSE v

HexDigits == "0123456789abcdef"

\* Value of the digit c in the given radix, -1 when c is no such digit
DigitValue(c, radix) ==
    LET k == CharIndex(HexDigits, c)
        u == CharIndex("0123456789ABCDEF", c)
        v == IF k # 0 THEN k - 1 ELSE u - 1
    IN  IF v >= 0 /\ v < radix THEN v ELSE -1

\* First position >= i of s that holds no digit of the given radix
RECURSIVE DigitsEnd(_, _, _)
DigitsEnd(s, i, radix) ==
    IF i <= Len(s) /\ DigitValue(CharAt(s, i), radix) >= 0
    THEN DigitsEnd(s, i + 1, radix)
    ELSE i

\* Value of the digits s[i..j-1]
RECURSIVE DigitsValue(_, _, _, _)
DigitsValue(s, i, j, radix) ==
    IF j <= i THEN 0
    ELSE DigitsValue(s, i, j - 1, radix) * radix + DigitValue(CharAt(s, j - 1), radix)

\* StrUnsignedDecimalLiteral, after the sign: digits, an optional fraction and
\* an optional exponent.  i1 ends the integer digits, i2 the fraction digits,
\* e1 starts and e2 ends the exponent digits.
DecimalValue(s, neg, i1, i2, e1, e2) ==
    LET dot == CharAt(s, i1) = "."
        nFrac == IF dot THEN i2 - (i1 + 1) ELSE 0
        mant == DigitsValue(s, 1, i1, 10) * Pow(10, nFrac)
                  + (IF dot THEN DigitsValue(s, i1 + 1, i2, 10) ELSE 0)
        expo == (IF CharAt(s, i2 + 1) = "-" THEN -1 ELSE 1) * DigitsValue(s, e1, e2, 10)
    IN  IF (i1 - 1) + nFrac = 0 THEN NaN
        ELSE IF CharAt(s, i2) \notin {"e", "E"}
             THEN IF i2 = Len(s) + 1 THEN Fin(neg, mant, nFrac) ELSE NaN
             ELSE IF e2 = e1 \/ e2 # Len(s) + 1 THEN NaN
                  ELSE IF expo >= nFrac THEN Fin(neg, mant * Pow(10, expo - nFrac), 0)
                       ELSE Fin(neg, mant, nFrac - expo)

DecimalExponent(s, neg, i1, i2, e1) == DecimalValue(s, neg, i1, i2, e1, DigitsEnd(s, e1, 10))

DecimalFraction(s, neg, i1, i2) ==
    DecimalExponent(s, neg, i1, i2,
                    IF CharAt(s, i2 + 1) \in {"+", "-"} THEN i2 + 2 ELSE i2 + 1)

DecimalInteger(s, neg, i1) ==
    DecimalFraction(s, neg, i1,
                    IF CharAt(s, i1) = "." THEN DigitsEnd(s, i1 + 1, 10) ELSE i1)

UnsignedDecimal(s, neg) == DecimalInteger(s, neg, DigitsEnd(s, 1, 10))

\* StringToNumber of a trimmed text
StringToNumber(s) ==
    LET c1 == CharAt(s, 1)
        c2 == CharAt(s, 2)
        radix == IF c2 \in {"x", "X"} THEN 16
                 ELSE IF c2 \in {"o", "O"} THEN 8
                 ELSE IF c2 \in {"b", "B"} THEN 2 ELSE 0
    IN  IF s = "" THEN Num(0)
        ELSE IF c1 = "0" /\ radix # 0
             THEN IF Len(s) > 2 /\ DigitsEnd(s, 3, radix) = Len(s) + 1
                  THEN Fin(FALSE, DigitsValue(s, 3, Len(s) + 1, radix), 0)
                  ELSE NaN
        ELSE IF c1 \in {"+", "-"}
             THEN IF SubSeq(s, 2, Len(s)) = "Infinity" THEN Infinity(c1 = "-")
                  ELSE UnsignedDecimal(SubSeq(s, 2, Len(s)), c1 = "-")
        ELSE IF s = "Infinity" THEN Infinity(FALSE)
        ELSE UnsignedDecimal(s, FALSE)

\* Number(x) for a string, undefined or null
Number(x) ==
    IF x = Undefined THEN NaN
    ELSE IF x = Null THEN Num(0)
    ELSE StringToNumber(trim(x))

\* a !== b for numbers (NaN differs from everything, -0 equals 0)
NumEq(a, b) ==
    /\ a.kind # "nan" /\ b.kind # "nan"
    /\ a.kind = b.kind
    /\ \/ a.kind = "inf" /\ a.neg = b.neg
       \/ /\ a.kind = "fin"
          /\ a.mant * Pow(10, b.frac) = b.mant * Pow(10, a.frac)
          /\ (a.neg = b.neg \/ a.mant = 0)

(***************************************************************************)
(* Dates.  A time value is a number of hours since 1970-01-01T00:00Z, or   *)
(* InvalidTime for the NaN time value of an Invalid Date.                   *)
(***************************************************************************)
InvalidTime == -1000000000
HoursPerDay == 24

\* Day number of a proleptic Gregorian date, month in 1..12 (ECMAScript MakeDay)
DaysFromCivil(y, m, d) ==
    LET yy == IF m <= 2 THEN y - 1 ELSE y
        era == yy \div 400
        yoe == yy - era * 400
        mp == IF m > 2 THEN m - 3 ELSE m + 9
        doy == (153 * mp + 2) \div 5 + d - 1
        doe == yoe * 365 + yoe \div 4 - yoe \div 100 + doy
    IN  era * 146097 + doe - 719468

\* <<year, month 1..12, day of month>> of a day number (YearFromTime,
\* MonthFromTime, DateFromTime)
CivilFromDays(z0) ==
    LET z == z0 + 719468
        era == z \div 146097
        doe == z - era * 146097
        yoe == (doe - doe \div 1460 + doe \div 36524 - doe \div 146096) \div 365
        doy == doe - (365 * yoe + yoe \div 4 - yoe \div 100)
        mp == (5 * doy + 2) \div 153
        d == doy - (153 * mp + 2) \div 5 + 1
        m == IF mp < 10 THEN mp + 3 ELSE mp - 9
        y == yoe + era * 400
    IN  <<IF m <= 2 THEN y + 1 ELSE y, m, d>>

\* Largest day number of a valid time value: 8.64e15 ms
MaxDay == 100000000

\* Date.UTC(y, month, d) for numbers y, month (0-based) and d, in hours
DateUTC(y, month, d) ==
    IF y.kind # "fin" \/ month.kind # "fin" \/ d.kind # "fin" THEN InvalidTime
    ELSE
    LET trunc(n) == LET v == n.mant \div Pow(10, n.frac) IN IF n.neg THEN -v ELSE v
        yi == trunc(y)
        yr == IF yi >= 0 /\ yi <= 99 THEN 1900 + yi ELSE yi
        mi == trunc(month)
        ym == yr + mi \div 12
        mn == mi % 12
        day == DaysFromCivil(ym, mn + 1, 1) + trunc(d) - 1
    IN  IF day > MaxDay \/ day < -MaxDay THEN InvalidTime ELSE day * HoursPerDay

getUTCFullYear(t) == IF t = InvalidTime THEN NaN ELSE Num(CivilFromDays(t \div HoursPerDay)[1])
getUTCMonth(t) == IF t = InvalidTime THEN NaN ELSE Num(CivilFromDays(t \div HoursPerDay)[2] - 1)
getUTCDate(t) == IF t = InvalidTime THEN NaN ELSE Num(CivilFromDays(t \div HoursPerDay)[3])

\* n + k and n - k for a number n and an integer k
AddInt(n, k) ==
    IF n.kind # "fin" THEN n
    ELSE LET v == (IF n.neg THEN -n.mant ELSE n.mant) + k * Pow(10, n.frac)
         IN  Fin(v < 0, IF v < 0 THEN -v ELSE v, n.frac)

(***************************************************************************)
(* Errors.  PaymentMessages and TRANSACTION_STATUS_CODE_MAPPING are        *)
(* tables of constants kept outside the parser; an entry is modelled by    *)
(* its key.                                                                *)
(***************************************************************************)
Msg(key) == "PaymentMessages." \o key
Code(key) == "TRANSACTION_STATUS_CODE_MAPPING." \o key

\* throwAppError(message, code)
AppError(message, code) == [name |-> "AppError", message |-> message, code |-> code]

\* undefined.split('-')
SplitOfUndefined ==
    [name |-> "TypeError",
     message |-> "Cannot read properties of undefined (reading 'split')",
     code |-> Undefined]

Throw(e) == [ok |-> FALSE, error |-> e]
Return(v) == [ok |-> TRUE, value |-> v]

MalformedInstruction == AppError(Msg("MALFORMED_INSTRUCTION"), Code("MALFORMED_INSTRUCTION"))
InvalidAmount == AppError(Msg("POSITIVE_INT_ERROR"), Code("POSITIVE_INT_ERROR"))
UnsupportedCurrency == AppError(Msg("UNSUPPORTED_CURRENCY"), Code("UNSUPPORTED_CURRENCY"))
InvalidInstructionFormat ==
    AppError(Msg("INVALID_INSTRUCTION_FORMAT"), Code("MALFORMED_INSTRUCTION"))
SameAccountError == AppError(Msg("SAME_ACCOUNT_ERROR"), Code("SAME_ACCOUNT_ERROR"))
InvalidDateFormat == AppError(Msg("INVALID_DATE_FORMAT"), Code("INVALID_DATE_FORMAT"))

(***************************************************************************)
(* The steps of parseInstruction                                           *)
(***************************************************************************)
InstructionTypes == <<"DEBIT", "CREDIT">>
SupportedCurrencies == <<"USD", "NGN", "GBP", "GHS">>
allowedCharacters == "ABCDEFGHIJKLMNOPQRSTUVWXYZabcdefghijklmnopqrstuvwxyz0123456789-_."

\* !['DEBIT', 'CREDIT'].includes(upperWords[0])
TypeRejected(upperWords) == ~includes(InstructionTypes, At(upperWords, 0))

\* Number.isNaN(amount) || amount <= 0 || !Number.isInteger(amount)
AmountRejected(amount) == isNaN(amount) \/ LeqZero(amount) \/ ~isInteger(amount)

\* !['USD', 'NGN', 'GBP', 'GHS'].includes(currency)
CurrencyRejected(currency) == ~includes(SupportedCurrencies, currency)

\* FROM must come before TO in a DEBIT instruction, TO before FROM in a CREDIT
RouteRejected(type, fromIdx, toIdx) ==
    \/ type = "DEBIT" /\ (fromIdx = -1 \/ toIdx = -1 \/ fromIdx > toIdx)
    \/ type = "CREDIT" /\ (toIdx = -1 \/ fromIdx = -1 \/ toIdx > fromIdx)

\* <keyword> ACCOUNT <identifier>: the identifier, or null
AccountAfter(words, upperWords, idx) ==
    IF /\ idx # -1
       /\ Len(upperWords) > idx + 2
       /\ At(upperWords, idx + 1) = "ACCOUNT"
       /\ ~Falsy(At(words, idx + 2))
    THEN At(words, idx + 2)
    ELSE Null

\* idx !== -1 ? words[idx + 2] : null
WordAfter(words, idx) == IF idx # -1 THEN At(words, idx + 2) ELSE Null

\* [...account].every((char) => allowedCharacters.includes(char))
isValidAccount(account) ==
    \A i \in 1..Len(account) : CharIndex(allowedCharacters, CharAt(account, i)) # 0

\* The round trip of the date through Date.UTC and the UTC getters
ExecuteByDate(date, y, m, d) ==
    LET utcDate == DateUTC(y, AddInt(m, -1), d)
    IN  IF \/ ~NumEq(getUTCFullYear(utcDate), y)
           \/ ~NumEq(AddInt(getUTCMonth(utcDate), 1), m)
           \/ ~NumEq(getUTCDate(utcDate), d)
        THEN Throw(InvalidDateFormat)
        ELSE Return(date)

\* const [y, m, d] = date.split('-').map(Number)
ExecuteByParts(date, parts) ==
    ExecuteByDate(date, Number(At(parts, 0)), Number(At(parts, 1)), Number(At(parts, 2)))

\* The optional ON date: the execute-by date, null without ON, or the error
ExecuteBy(words, upperWords) ==
    LET onIdx == indexOf(upperWords, "ON")
        date == At(words, onIdx + 1)
    IN  IF onIdx = -1 THEN Return(Null)
        ELSE IF date = Undefined THEN Throw(SplitOfUndefined)
        ELSE ExecuteByParts(date, SplitChar(date, "-"))

\* The parsed instruction record
Response(type, amount, currency, fromAccount, toAccount, executeBy) ==
    [type |-> type, amount |-> IntegerValue(amount), currency |-> currency,
     debit_account |-> fromAccount, credit_account |-> toAccount,
     executeBy |-> executeBy]

(***************************************************************************)
(* parseInstruction, the variant with the route-order and identifier       *)
(* checks.  The checks, in the order of the code, on the values the code   *)
(* has computed from the words.                                            *)
(***************************************************************************)
\* The checks with the currency looked at before the amount
StrictChecks_currencyFirst(upperWords, amount, fromIdx, toIdx, fromAccount, toAccount, on) ==
    LET type == At(upperWords, 0)
        currency == At(upperWords, 2)
    IN  IF TypeRejected(upperWords) THEN Throw(MalformedInstruction)
        ELSE IF CurrencyRejected(currency) THEN Throw(UnsupportedCurrency)
        ELSE IF AmountRejected(amount) THEN Throw(InvalidAmount)
        ELSE IF RouteRejected(type, fromIdx, toIdx) THEN Throw(MalformedInstruction)
        ELSE IF ~Falsy(fromAccount) /\ ~isValidAccount(fromAccount)
             THEN Throw(InvalidInstructionFormat)
        ELSE IF ~Falsy(toAccount) /\ ~isValidAccount(toAccount)
             THEN Throw(InvalidInstructionFormat)
        ELSE IF Falsy(fromAccount) \/ Falsy(toAccount) THEN Throw(InvalidInstructionFormat)
        ELSE IF fromAccount = toAccount THEN Throw(SameAccountError)
        ELSE IF ~on.ok THEN on
        ELSE Return(Response(type, amount, currency, fromAccount, toAccount, on.value))

StrictChecks(upperWords, amount, fromIdx, toIdx, fromAccount, toAccount, on) ==
    LET type == At(upperWords, 0)
        currency == At(upperWords, 2)
    IN  IF TypeRejected(upperWords) THEN Throw(MalformedInstruction)
        ELSE IF AmountRejected(amount) THEN Throw(InvalidAmount)
        ELSE IF CurrencyRejected(currency) THEN Throw(UnsupportedCurrency)
        ELSE IF RouteRejected(type, fromIdx, toIdx) THEN Throw(MalformedInstruction)
        ELSE IF ~Falsy(fromAccount) /\ ~isValidAccount(fromAccount)
             THEN Throw(InvalidInstructionFormat)
        ELSE IF ~Falsy(toAccount) /\ ~isValidAccount(toAccount)
             THEN Throw(InvalidInstructionFormat)
        ELSE IF Falsy(fromAccount) \/ Falsy(toAccount) THEN Throw(InvalidInstructionFormat)
        ELSE IF fromAccount = toAccount THEN Throw(SameAccountError)
        ELSE IF ~on.ok THEN on
        ELSE Return(Response(type, amount, currency, fromAccount, toAccount, on.value))

StrictRoute(words, upperWords, fromIdx, toIdx) ==
    StrictChecks(upperWords, Number(At(words, 1)), fromIdx, toIdx,
                 AccountAfter(words, upperWords, fromIdx),
                 AccountAfter(words, upperWords, toIdx),
                 ExecuteBy(words, upperWords))

StrictWords(words, upperWords) ==
    StrictRoute(words, upperWords, indexOf(upperWords, "FROM"), indexOf(upperWords, "TO"))

StrictSplit(words) == StrictWords(words, UpperWords(words))

parseInstructionStrict(ins) == StrictSplit(SplitSpace(trim(ins)))

(***************************************************************************)
(* parseInstruction of helpers/parse-instruction.js and of the payment     *)
(* service: neither checks the order of FROM and TO nor the characters of  *)
(* the identifiers                                                         *)
(***************************************************************************)
LooseChecks(upperWords, amount, fromAccount, toAccount, on) ==
    LET type == At(upperWords, 0)
        currency == At(upperWords, 2)
    IN  IF TypeRejected(upperWords) THEN Throw(MalformedInstruction)
        ELSE IF AmountRejected(amount) THEN Throw(InvalidAmount)
        ELSE IF CurrencyRejected(currency) THEN Throw(UnsupportedCurrency)
        ELSE IF Falsy(fromAccount) \/ Falsy(toAccount) THEN Throw(InvalidInstructionFormat)
        ELSE IF fromAccount = toAccount THEN Throw(SameAccountError)
        ELSE IF ~on.ok THEN on
        ELSE Return(Response(type, amount, currency, fromAccount, toAccount, on.value))

\* helpers/parse-instruction.js: ACCOUNT is required after FROM and after TO
HelperWords(words, upperWords) ==
    LooseChecks(upperWords, Number(At(words, 1)),
                AccountAfter(words, upperWords, indexOf(upperWords, "FROM")),
                AccountAfter(words, upperWords, indexOf(upperWords, "TO")),
                ExecuteBy(words, upperWords))

HelperSplit(words) == HelperWords(words, UpperWords(words))

parseInstructionHelper(ins) == HelperSplit(SplitSpace(trim(ins)))

\* The payment service, whose parseInstruction handlePaymentInstruction calls:
\* the account is the second word after FROM and after TO, whatever the first
ServiceWords(words, upperWords) ==
    LooseChecks(upperWords, Number(At(words, 1)),
                WordAfter(words, indexOf(upperWords, "FROM")),
                WordAfter(words, indexOf(upperWords, "TO")),
                ExecuteBy(words, upperWords))

ServiceSplit(words) == ServiceWords(words, UpperWords(words))

parseInstruction(ins) == ServiceSplit(SplitSpace(trim(ins)))

(***************************************************************************)
(* new Date(string)                                                        *)
(***************************************************************************)
IsDigit(c) == c # "" /\ CharIndex("0123456789", c) # 0

\* The date-only form of the ECMAScript date-time string format: YYYY-MM-DD
IsIsoDate(s) ==
    /\ Len(s) = 10
    /\ \A i \in {1, 2, 3, 4, 6, 7, 9, 10} : IsDigit(CharAt(s, i))
    /\ CharAt(s, 5) = "-" /\ CharAt(s, 8) = "-"

\* The time values new Date(s) can have for an execute-by string s that passed
\* the parser: UTC midnight for the date-only ISO form; any other form falls
\* back to the engine's own heuristics, which may reject it or read it as a
\* UTC or as a local date.
DateParse(s, tz) ==
    LET parts == SplitChar(s, "-")
        utc == DateUTC(Number(At(parts, 0)), AddInt(Number(At(parts, 1)), -1),
                       Number(At(parts, 2)))
    IN  IF IsIsoDate(s) THEN {utc}
        ELSE {InvalidTime, utc, utc - tz}

(***************************************************************************)
(* The requests of the model: validated bodies { accounts, instruction }   *)
(* and the clock of the process that serves them                           *)
(***************************************************************************)
MaxAccounts == 3

AccountIds == {"A1", "A2"}
AccountCurrencies == {"USD", "NGN"}
AccountBalances == {100, 200}
Accounts == [id : AccountIds, balance : AccountBalances, currency : AccountCurrencies]

AccountLists == UNION {[1..n -> Accounts] : n \in 0..MaxAccounts}

\* now: hours since the epoch; tz: hours the local time is ahead of UTC.
\* 2024-02-29T03:00Z in a zone at UTC and in one at UTC-5 (local 2024-02-28),
\* and 2024-02-29T12:00Z in a zone at UTC+1.
Leap2024 == DaysFromCivil(2024, 2, 29) * HoursPerDay
Clocks == {[now |-> Leap2024 + 3, tz |-> 0],
           [now |-> Leap2024 + 3, tz |-> -5],
           [now |-> Leap2024 + 12, tz |-> 1]}
Zones == {c.tz : c \in Clocks}

Heads == {"DEBIT 100 USD", "credit 200 usd"}
Routes == {"FROM ACCOUNT A1 TO ACCOUNT A2", "to account A2 from account A1"}
Tails == {"", " ON 2024-02-28", " ON 2024-02-29", " on 2024-03-01", " ON",
          " ON 2024-02-30"}

ServiceInstructions ==
    {h \o " " \o r \o t : h \in Heads, r \in Routes, t \in Tails}
    \cup {"SEND 100 USD FROM ACCOUNT A1 TO ACCOUNT A2",
          "DEBIT 0 USD FROM ACCOUNT A1 TO ACCOUNT A2",
          "DEBIT 100 EUR FROM ACCOUNT A1 TO ACCOUNT A2",
          "DEBIT 100 USD FROM ACCOUNT A1 TO ACCOUNT A1",
          "DEBIT 100 USD FROM A1 TO ACCOUNT A2",
          "DEBIT 100 USD"}

\* parseInstruction, toUpperCase and the Date constructor are pure functions:
\* their results over the values of the modelled requests, computed once
ParseTable == [ins \in ServiceInstructions |-> parseInstruction(ins)]
Parsed(ins) == ParseTable[ins]

UpperTable == [c \in AccountCurrencies |-> toUpperCase(c)]
Upper(c) == UpperTable[c]

ExecuteByStrings ==
    {ParseTable[ins].value.executeBy :
        ins \in {i \in ServiceInstructions : ParseTable[i].ok}} \ {Null}
DateTable == [s \in ExecuteByStrings, tz \in Zones |-> DateParse(s, tz)]
NewDate(s, tz) == DateTable[s, tz]

(***************************************************************************)
(* handlePaymentInstruction                                                *)
(***************************************************************************)
\* A catch clause that lets everything but the parser's own errors escape
Catches_appErrorOnly(err) == err.name = "AppError"

\* catch (err): a catch clause without a filter catches whatever was thrown
Catches(err) == TRUE

\* today = new Date(); today.setHours(0, 0, 0, 0): local midnight, as a UTC time
Today(clk) == ((clk.now + clk.tz) \div HoursPerDay) * HoursPerDay - clk.tz

\* execDate > today (false for an Invalid Date)
Later(execDate, today) == execDate # InvalidTime /\ execDate > today

\* What find returns when no record matches: undefined, as a record so that it
\* compares with account records
NoAccount == [undefined |-> TRUE]

\* accounts.find((a) => a.id === id): the first such record, or undefined
find(accts, id) ==
    IF \E i \in 1..Len(accts) : accts[i].id = id
    THEN accts[CHOOSE i \in 1..Len(accts) :
                 /\ accts[i].id = id
                 /\ \A j \in 1..(i - 1) : accts[j].id # id]
    ELSE NoAccount

\* accounts.filter((a) => ids.includes(a.id))
RECURSIVE filter(_, _)
filter(accts, ids) ==
    IF accts = <<>> THEN <<>>
    ELSE (IF includes(ids, Head(accts).id) THEN <<Head(accts)>> ELSE <<>>)
            \o filter(Tail(accts), ids)

\* A currency check that looks at the debit account only
CurrencyMismatch_debitOnly(debitAcc, creditAcc, parsed) ==
    Upper(debitAcc.currency) # parsed.currency

\* debitAcc.currency.toUpperCase() !== parsed.currency || the same for creditAcc
CurrencyMismatch(debitAcc, creditAcc, parsed) ==
    \/ Upper(debitAcc.currency) # parsed.currency
    \/ Upper(creditAcc.currency) # parsed.currency

\* A funds check that also refuses a balance equal to the amount
InsufficientFunds_inclusive(debitAcc, parsed) == debitAcc.balance <= parsed.amount

\* debitAcc.balance < parsed.amount
InsufficientFunds(debitAcc, parsed) == debitAcc.balance < parsed.amount

\* { ...acc, balance_before: acc.balance, balance: acc.balance + delta }
Updated(acc, delta) ==
    [balance_before |-> acc.balance, balance |-> acc.balance + delta]
        @@ [f \in DOMAIN acc \ {"balance"} |-> acc[f]]

\* The outcome of a request whose instruction did not parse
ParseFailure(err) ==
    [type |-> Null, amount |-> Null, currency |-> Null, debit_account |-> Null,
     credit_account |-> Null, execute_by |-> Null,
     status |-> "failed", status_reason |-> err.message,
     status_code |-> Code("MALFORMED_INSTRUCTION"), accounts |-> <<>>]

\* { ...parsed, status, status_reason, status_code, accounts }
Outcome(parsed, status, key, accts) ==
    parsed @@ [status |-> status, status_reason |-> Msg(key),
               status_code |-> Code(key), accounts |-> accts]

\* What happens after the execution-date check let the instruction through
Settle(accts, parsed) ==
    LET debitAcc == find(accts, parsed.debit_account)
        creditAcc == find(accts, parsed.credit_account)
    IN  IF debitAcc = NoAccount \/ creditAcc = NoAccount
        THEN Outcome(parsed, "failed", "ACCOUNT_NOT_FOUND",
                     filter(accts, <<parsed.debit_account, parsed.credit_account>>))
        ELSE IF CurrencyMismatch(debitAcc, creditAcc, parsed)
        THEN Outcome(parsed, "failed", "CURRENCY_MISMATCH", <<debitAcc, creditAcc>>)
        ELSE IF InsufficientFunds(debitAcc, parsed)
        THEN Outcome(parsed, "failed", "INSUFFICIENT_FUNDS", <<debitAcc, creditAcc>>)
        ELSE Outcome(parsed, "successful", "TRANSACTION_SUCCESSFUL",
                     <<Updated(debitAcc, -parsed.amount), Updated(creditAcc, parsed.amount)>>)

\* if (parsed.executeBy) { execDate = new Date(parsed.executeBy); execDate > today }
Pending(parsed, execDate, clk) ==
    ~Falsy(parsed.executeBy) /\ Later(execDate, Today(clk))

\* The handler after parseInstruction has returned or thrown p
HandleParsed(accts, clk, p) ==
    IF ~p.ok
    THEN {IF Catches(p.error) THEN Return(ParseFailure(p.error)) ELSE Throw(p.error)}
    ELSE { IF Pending(p.value, execDate, clk)
           THEN Return(Outcome(p.value, "pending", "TRANSACTION_PENDING", <<>>))
           ELSE Return(Settle(accts, p.value)) :
             execDate \in IF Falsy(p.value.executeBy) THEN {InvalidTime}
                          ELSE NewDate(p.value.executeBy, clk.tz) }

\* The results the handler can have for a validated body { accounts, instruction }
\* at the given clock: an outcome it returns, or an error it lets escape
handlePaymentInstruction(accts, ins, clk) == HandleParsed(accts, clk, Parsed(ins))

(***************************************************************************)
(* The service: each behaviour is one request                              *)
(***************************************************************************)
Init ==
    /\ instruction \in ServiceInstructions
    /\ accounts \in AccountLists
    /\ clock \in Clocks
    /\ pc = "request"
    /\ result = Null

\* One request: the service handles the body and responds
HandlePaymentInstruction ==
    /\ pc = "request"
    /\ result' \in handlePaymentInstruction(accounts, instruction, clock)
    /\ pc' = "responded"
    /\ UNCHANGED <<instruction, accounts, clock>>

Next == HandlePaymentInstruction

Spec == Init /\ [][Next]_vars

(***************************************************************************)
(* The parsers on their own: each behaviour parses one instruction with    *)
(* one of the three variants of parseInstruction                           *)
(***************************************************************************)
ParserTypes == {"DEBIT", "credit", "SEND"}
ParserAmounts == {"100", "0", "1.5", "abc"}
ParserCurrencies == {"ngn", "EUR"}
ParserRoutes ==
    {"FROM ACCOUNT A1 TO ACCOUNT A2",
     "to account b_2 from account a.1-x",
     "FROM ACCOUNT A1",
     "FROM A1 TO ACCOUNT A2",
     "FROM ACCOUNT A@1 TO ACCOUNT A2",
     "FROM ACCOUNT A1 TO ACCOUNT A1",
     "TO ACCOUNT A@1 FROM ACCOUNT A@1",
     "FROM ACCOUNT A1 TO ACCOUNT",
     "FROM ACCOUNT TO TO ACCOUNT A2",
     "TO ACCOUNT from FROM ACCOUNT A1",
     "FROM ACCOUNT On TO ACCOUNT A2",
     "FROM ACCOUNT ACCOUNT TO ACCOUNT A2",
     "TO ACCOUNT A1 FROM ACCOUNT account",
     ""}
ParserTails == {"", " ON 2024-02-29", " ON 2023-02-29", " ON 2025-02-30",
                " on 2024-12-31", " ON", " ON 2024-3-1", " ON soon"}

ParserInstructions ==
    {t \o " " \o a \o " " \o c \o " " \o r \o d :
        t \in ParserTypes, a \in ParserAmounts, c \in ParserCurrencies,
        r \in ParserRoutes, d \in ParserTails}

InitParse ==
    /\ instruction \in ParserInstructions
    /\ accounts = <<>>
    /\ clock = [now |-> Leap2024 + 3, tz |-> 0]
    /\ pc = "input"
    /\ result = Null

ParseStrict ==
    /\ pc = "input"
    /\ result' = [parser |-> "strict", r |-> parseInstructionStrict(instruction)]
    /\ pc' = "parsed"
    /\ UNCHANGED <<instruction, accounts, clock>>

ParseHelper ==
    /\ pc = "input"
    /\ result' = [parser |-> "helper", r |-> parseInstructionHelper(instruction)]
    /\ pc' = "parsed"
    /\ UNCHANGED <<instruction, accounts, clock>>

ParseService ==
    /\ pc = "input"
    /\ result' = [parser |-> "service", r |-> parseInstruction(instruction)]
    /\ pc' = "parsed"
    /\ UNCHANGED <<instruction, accounts, clock>>

NextParse == ParseStrict \/ ParseHelper \/ ParseService

SpecParse == InitParse /\ [][NextParse]_vars

(***************************************************************************)
(* Properties of the service (specification Spec)                          *)
(***************************************************************************)
Responded == pc = "responded"

\* The parsed instruction of the request, when it parses
ParsedOk == Parsed(instruction).ok
Instr == Parsed(instruction).value

\* Positions of the supplied accounts with a given id, and the first of them
Positions(id) == {i \in 1..Len(accounts) : accounts[i].id = id}
FirstOf(S) == CHOOSE i \in S : \A j \in S : i <= j
DebitListed == Positions(Instr.debit_account) # {}
CreditListed == Positions(Instr.credit_account) # {}
Debit == accounts[FirstOf(Positions(Instr.debit_account))]
Credit == accounts[FirstOf(Positions(Instr.credit_account))]
CurrenciesMatch ==
    Upper(Debit.currency) = Instr.currency /\ Upper(Credit.currency) = Instr.currency

\* The calendar day (days since the epoch) an execute-by date names, and the
\* current calendar day of the process
CalendarDay(s) ==
    DaysFromCivil(DigitsValue(s, 1, 5, 10), DigitsValue(s, 6, 8, 10), DigitsValue(s, 9, 11, 10))
CalendarDayTable == [s \in ExecuteByStrings |-> CalendarDay(s)]
CurrentDay == (clock.now + clock.tz) \div HoursPerDay
ScheduledForFutureDay ==
    Instr.executeBy # Null /\ CalendarDayTable[Instr.executeBy] > CurrentDay

\* C1: an instruction that parses and is not scheduled for a future day, with
\* both accounts found, in the instruction's currency, and a debit balance of
\* at least the amount, is settled: status 'successful', accounts =
\* [updatedDebit, updatedCredit], the debit balance lowered and the credit
\* balance raised by the amount, each balance_before the supplied balance.
C1_SettledUnlessFuture ==
    (/\ Responded /\ ParsedOk /\ ~ScheduledForFutureDay
     /\ DebitListed /\ CreditListed /\ CurrenciesMatch
     /\ Debit.balance >= Instr.amount)
    => /\ result.ok
       /\ result.value.status = "successful"
       /\ result.value.accounts =
            << [id |-> Debit.id, currency |-> Debit.currency,
                balance |-> Debit.balance - Instr.amount,
                balance_before |-> Debit.balance],
               [id |-> Credit.id, currency |-> Credit.currency,
                balance |-> Credit.balance + Instr.amount,
                balance_before |-> Credit.balance] >>
       /\ result.value.accounts[1].balance >= 0
       /\ result.value.accounts[1].balance + result.value.accounts[2].balance
            = Debit.balance + Credit.balance

\* C2: once the service has found both accounts in the instruction's currency,
\* a debit balance below the amount gives 'failed' with INSUFFICIENT_FUNDS and
\* accounts = [debit, credit] exactly as supplied; a balance equal to the
\* amount does not fail the funds check.
C2_InsufficientFunds ==
    (/\ Responded /\ ParsedOk /\ result.ok /\ result.value.status # "pending"
     /\ DebitListed /\ CreditListed /\ CurrenciesMatch)
    => /\ Debit.balance < Instr.amount
            => /\ result.value.status = "failed"
               /\ result.value.status_code = Code("INSUFFICIENT_FUNDS")
               /\ result.value.accounts = <<Debit, Credit>>
       /\ Debit.balance = Instr.amount
            => /\ result.value.status_code # Code("INSUFFICIENT_FUNDS")
               /\ result.value.status = "successful"

C2_Witness ==
    /\ Responded /\ ParsedOk /\ result.ok
    /\ result.value.status_code = Code("INSUFFICIENT_FUNDS")
    /\ Debit.balance < Instr.amount
    /\ FirstOf(Positions(Instr.credit_account)) < FirstOf(Positions(Instr.debit_account))

\* C3: a parsed instruction whose ON date is later than the current calendar
\* day is 'pending' with accounts = [], whatever the accounts; an ON date equal
\* to or before the current day is never 'pending'.
C3_PendingIffFutureDay ==
    (Responded /\ ParsedOk)
    => /\ result.ok
       /\ ScheduledForFutureDay
            => result.value.status = "pending" /\ result.value.accounts = <<>>
       /\ ~ScheduledForFutureDay => result.value.status # "pending"

\* C4: the accounts of every outcome have 0, 1 or 2 entries; an
\* ACCOUNT_NOT_FOUND outcome holds just the found ones of the two referenced
\* accounts, in input order.
C4_AtMostTwoAccounts ==
    (Responded /\ result.ok)
    => /\ Len(result.value.accounts) <= 2
       /\ (ParsedOk /\ result.value.status_code = Code("ACCOUNT_NOT_FOUND"))
            => result.value.accounts =
                 IF DebitListed THEN <<Debit>>
                 ELSE IF CreditListed THEN <<Credit>> ELSE <<>>

\* C5: once the service has found both accounts, a currency of either that
\* differs from the instruction's gives 'failed' with CURRENCY_MISMATCH and
\* accounts = [debit, credit] as supplied, debit first, whether or not the
\* debit balance covers the amount.
C5_CurrencyMismatch ==
    (/\ Responded /\ ParsedOk /\ result.ok /\ result.value.status # "pending"
     /\ DebitListed /\ CreditListed /\ ~CurrenciesMatch)
    => /\ result.value.status = "failed"
       /\ result.value.status_code = Code("CURRENCY_MISMATCH")
       /\ result.value.accounts = <<Debit, Credit>>

C5_Witness ==
    /\ Responded /\ ParsedOk /\ result.ok
    /\ result.value.status_code = Code("CURRENCY_MISMATCH")
    /\ Upper(Debit.currency) = Instr.currency /\ Upper(Credit.currency) # Instr.currency
    /\ Debit.balance < Instr.amount
    /\ FirstOf(Positions(Instr.credit_account)) < FirstOf(Positions(Instr.debit_account))

\* Whether the route of an instruction contradicts its type: FROM or TO is
\* missing, the first TO precedes the first FROM in a DEBIT, or the first FROM
\* precedes the first TO in a CREDIT
RouteContradicts(upperWords) ==
    LET fromIdx == indexOf(upperWords, "FROM")
        toIdx == indexOf(upperWords, "TO")
    IN  /\ At(upperWords, 0) \in {"DEBIT", "CREDIT"}
        /\ \/ fromIdx = -1 \/ toIdx = -1
           \/ At(upperWords, 0) = "DEBIT" /\ toIdx < fromIdx
           \/ At(upperWords, 0) = "CREDIT" /\ fromIdx < toIdx
RouteContradictsTable ==
    [ins \in ServiceInstructions |-> RouteContradicts(UpperWords(SplitSpace(trim(ins))))]

\* C6: the service never answers 'pending' or 'successful' to an instruction
\* whose route contradicts its type; it rejects it as a malformed instruction
\* and changes no balance.
C6_RouteDirectionEnforced ==
    (Responded /\ RouteContradictsTable[instruction])
    => /\ result.ok
       /\ result.value.status = "failed"
       /\ result.value.status_code = Code("MALFORMED_INSTRUCTION")
       /\ result.value.accounts = <<>>

\* C9: the service returns an outcome and never throws; a failure inside
\* parseInstruction, of whatever kind, becomes the outcome 'failed' with the
\* malformed-instruction code, the error's message as status_reason, null
\* instruction fields and accounts = []; the status of every outcome is
\* pending, failed or successful.
C9_NeverThrows ==
    Responded
    => /\ result.ok
       /\ result.value.status \in {"pending", "failed", "successful"}
       /\ ~ParsedOk
            => result.value =
                 [type |-> Null, amount |-> Null, currency |-> Null,
                  debit_account |-> Null, credit_account |-> Null,
                  execute_by |-> Null, status |-> "failed",
                  status_reason |-> Parsed(instruction).error.message,
                  status_code |-> Code("MALFORMED_INSTRUCTION"),
                  accounts |-> <<>>]

C9_Witness ==
    /\ Responded /\ ~ParsedOk
    /\ Parsed(instruction).error.name = "TypeError"
    /\ result.ok /\ result.value.status = "failed"
    /\ result.value.status_reason = "Cannot read properties of undefined (reading 'split')"
    /\ accounts # <<>>

(***************************************************************************)
(* Properties of the parser (specification SpecParse).  The rules of the   *)
(* validation sequence, stated on the words of an instruction.             *)
(***************************************************************************)
StrictParsed == pc = "parsed" /\ result.parser = "strict"

\* The words of the instructions, as they are and in upper case
WordsTable == [ins \in ParserInstructions |-> SplitSpace(trim(ins))]
UpperWordsTable == [ins \in ParserInstructions |-> UpperWords(WordsTable[ins])]

IdAlphabet ==
    LET s == "ABCDEFGHIJKLMNOPQRSTUVWXYZabcdefghijklmnopqrstuvwxyz0123456789-_."
    IN  {CharAt(s, i) : i \in 1..Len(s)}
WellFormedId(id) == id # "" /\ \A i \in 1..Len(id) : CharAt(id, i) \in IdAlphabet

PositiveInteger(n) == n.kind = "fin" /\ ~n.neg /\ n.mant > 0 /\ isInteger(n)

DaysInMonth(y, m) ==
    IF m = 2
    THEN (IF y % 4 = 0 /\ (y % 100 # 0 \/ y % 400 = 0) THEN 29 ELSE 28)
    ELSE IF m \in {4, 6, 9, 11} THEN 30 ELSE 31

\* A YYYY-MM-DD string that denotes a real calendar date
RealDate(tok) ==
    /\ tok # Undefined
    /\ Len(tok) = 10
    /\ \A i \in {1, 2, 3, 4, 6, 7, 9, 10} : CharAt(tok, i) \in {CharAt("0123456789", k) : k \in 1..10}
    /\ CharAt(tok, 5) = "-" /\ CharAt(tok, 8) = "-"
    /\ DigitsValue(tok, 6, 8, 10) \in 1..12
    /\ DigitsValue(tok, 9, 11, 10) \in
         1..DaysInMonth(DigitsValue(tok, 1, 5, 10), DigitsValue(tok, 6, 8, 10))

\* Rule 5: the identifier a keyword resolves to, or null
Resolved(words, upperWords, kw) ==
    LET k == indexOf(upperWords, kw)
    IN  IF k # -1 /\ At(upperWords, k + 1) = "ACCOUNT" /\ At(words, k + 2) \notin {Undefined, ""}
        THEN At(words, k + 2) ELSE Null

RuleViolated(words, upperWords, k) ==
    LET fromIdx == indexOf(upperWords, "FROM")
        toIdx == indexOf(upperWords, "TO")
        onIdx == indexOf(upperWords, "ON")
        debit == Resolved(words, upperWords, "FROM")
        credit == Resolved(words, upperWords, "TO")
    IN  CASE k = 1 -> At(upperWords, 0) \notin {"DEBIT", "CREDIT"}
          [] k = 2 -> ~PositiveInteger(Number(At(words, 1)))
          [] k = 3 -> At(upperWords, 2) \notin {"USD", "NGN", "GBP", "GHS"}
          [] k = 4 -> \/ fromIdx = -1 \/ toIdx = -1
                      \/ At(upperWords, 0) = "DEBIT" /\ toIdx < fromIdx
                      \/ At(upperWords, 0) = "CREDIT" /\ fromIdx < toIdx
          [] k = 6 -> \/ debit = Null \/ credit = Null
                      \/ ~WellFormedId(debit) \/ ~WellFormedId(credit)
          [] k = 8 -> debit # Null /\ debit = credit
          [] k = 9 -> onIdx # -1 /\ ~RealDate(At(words, onIdx + 1))

\* The rules are numbered as in the validation sequence; 6 stands for the
\* group 5-7, which has one error class
Rules == {1, 2, 3, 4, 6, 8, 9}
ViolatedRules(words, upperWords) == {k \in Rules : RuleViolated(words, upperWords, k)}
ViolatedTable ==
    [ins \in ParserInstructions |-> ViolatedRules(WordsTable[ins], UpperWordsTable[ins])]
Violated == ViolatedTable[instruction]
Lowest(S) == CHOOSE k \in S : \A j \in S : k <= j

\* The message that identifies the error class of a rule
RuleMessage(k) ==
    CASE k \in {1, 4} -> Msg("MALFORMED_INSTRUCTION")
      [] k = 2 -> Msg("POSITIVE_INT_ERROR")
      [] k = 3 -> Msg("UNSUPPORTED_CURRENCY")
      [] k = 6 -> Msg("INVALID_INSTRUCTION_FORMAT")
      [] k = 8 -> Msg("SAME_ACCOUNT_ERROR")
      [] k = 9 -> Msg("INVALID_DATE_FORMAT")

\* C7: parseInstruction fails with the error of the earliest violated rule in
\* the order type, amount, currency, route, accounts, distinct accounts, ON
\* date: an instruction that violates two or more rules, or any of the rules
\* before the ON date, fails with the error class of the lowest-numbered
\* violated rule.
C7_FailFastOrder ==
    (StrictParsed /\ Violated # {} /\ (Cardinality(Violated) >= 2 \/ Lowest(Violated) < 9))
    => /\ ~result.r.ok
       /\ result.r.error.name = "AppError"
       /\ result.r.error.message = RuleMessage(Lowest(Violated))

C7_Witness ==
    /\ StrictParsed
    /\ Violated = {8, 9}
    /\ ~result.r.ok
    /\ result.r.error.message = Msg("SAME_ACCOUNT_ERROR")

\* The token after the first ON of an instruction, undefined when ON is last
OnToken(words, upperWords) ==
    IF indexOf(upperWords, "ON") = -1 THEN Null
    ELSE At(words, indexOf(upperWords, "ON") + 1)
OnTokenTable ==
    [ins \in ParserInstructions |-> OnToken(WordsTable[ins], UpperWordsTable[ins])]

\* C8: an instruction that passes the rules before the ON date and has the
\* keyword ON fails with InvalidDateFormat unless the token after ON is a
\* YYYY-MM-DD string of a real calendar date, also when ON is the last token;
\* 2024-02-29 is accepted and returned as the execute-by date.
C8_InvalidDateRejected ==
    (StrictParsed /\ Violated \subseteq {9} /\ OnTokenTable[instruction] # Null)
    => /\ ~RealDate(OnTokenTable[instruction])
            => /\ ~result.r.ok
               /\ result.r.error.name = "AppError"
               /\ result.r.error.message = Msg("INVALID_DATE_FORMAT")
       /\ OnTokenTable[instruction] = "2024-02-29"
            => result.r.ok /\ result.r.value.executeBy = "2024-02-29"

\* TYPE AMOUNT CURRENCY ROUTE [ON DATE], word by word, with a route that is
\* consistent with the type, two distinct identifiers and a real date
Conforms(words, upperWords) ==
    /\ Len(words) \in {9, 11}
    /\ upperWords[1] \in {"DEBIT", "CREDIT"}
    /\ PositiveInteger(Number(words[2]))
    /\ upperWords[3] \in {"USD", "NGN", "GBP", "GHS"}
    /\ upperWords[4] = (IF upperWords[1] = "DEBIT" THEN "FROM" ELSE "TO")
    /\ upperWords[5] = "ACCOUNT"
    /\ WellFormedId(words[6])
    /\ upperWords[7] = (IF upperWords[1] = "DEBIT" THEN "TO" ELSE "FROM")
    /\ upperWords[8] = "ACCOUNT"
    /\ WellFormedId(words[9])
    /\ words[6] # words[9]
    /\ Len(words) = 11 => upperWords[10] = "ON" /\ RealDate(words[11])

\* The instruction a conforming sequence of words denotes
Denoted(words, upperWords) ==
    [type |-> upperWords[1],
     amount |-> IntegerValue(Number(words[2])),
     currency |-> upperWords[3],
     debit_account |-> IF upperWords[1] = "DEBIT" THEN words[6] ELSE words[9],
     credit_account |-> IF upperWords[1] = "DEBIT" THEN words[9] ELSE words[6],
     executeBy |-> IF Len(words) = 11 THEN words[11] ELSE Null]

Grammar(words, upperWords) ==
    IF Conforms(words, upperWords) THEN Return(Denoted(words, upperWords)) ELSE Throw(Null)
GrammarTable ==
    [ins \in ParserInstructions |-> Grammar(WordsTable[ins], UpperWordsTable[ins])]

\* C10: every instruction that conforms to the grammar is parsed, with
\* debit_account the identifier after FROM ACCOUNT and credit_account the
\* identifier after TO ACCOUNT, also when an identifier is spelled like one of
\* the keywords.
C10_GrammarAccepted ==
    (StrictParsed /\ GrammarTable[instruction].ok)
    => /\ result.r.ok
       /\ result.r.value = GrammarTable[instruction].value

====
